---- MODULE Spec2Model ----
(***************************************************************************)
(* Model of rendy's resource manager (resource/src/resources.rs):          *)
(* Resources<B> with its two Terminals and two pending-destruction lists,  *)
(* the device and the heaps it calls, and the client threads that hold,    *)
(* move and drop the resource handles.                                     *)
(***************************************************************************)
EXTENDS Integers, Sequences, FiniteSets, TLC

\* ---------------------------------------------------------------- bounds
MaxObj == 2        \* raw objects the device creates in one run
MaxAlign == 2      \* alignments range over 1..MaxAlign

\* "main" owns the manager; "worker" stands for the threads a handle can be moved
\* to: a drop is one send into the Terminal whichever of them runs it.
Threads == {"main", "worker"}
Owner == "main"
Aligns == 1..MaxAlign
Sizes == {8}
BufferUsages == {"vertex"}
ImageKinds == {"D2"}
Levels == {1}
Formats == {"Rgba8"}
Tilings == {"Optimal"}
ViewCaps == {"KIND_CUBE"}
ImageUsages == {"sampled"}

VARIABLES
    alive,            \* the Resources instance exists
    pc,               \* position of the owning thread inside cleanup
    buffers,          \* Terminal<buffer::Inner>: queue of escaped payloads
    images,           \* Terminal<image::Inner>
    dropped_buffers,  \* Vec<buffer::Inner>
    dropped_images,   \* Vec<image::Inner>
    handles,          \* buffer::Buffer / image::Image values held by client threads
    devObjs,          \* device: kind of every raw object it created, by id
    devDestroyed,     \* device: destroy calls received, per raw object
    devBound,         \* device: <<raw, block>> pairs bound together
    heapFreed,        \* heaps: free calls received, per allocated block
    disposed,         \* raw ids of Inners whose leak guard was disposed
    leaked,           \* raw ids of Inners dropped with their leak guard armed
    lost,             \* raw ids of payloads an Escape dropped in place (Terminal gone)
    request,          \* the last manager operation called and its arguments
    calls,            \* device and heaps calls made by the last manager operation
    result,           \* outcome of the last manager operation
    fate,             \* per raw object: "failed", "held", "destroyed", or the
                      \* thread that dropped its handle
    started,          \* per raw object: cleanup calls begun since its handle left
                      \* and before its release
    done,             \* per raw object: those of them that returned
    raced             \* raw ids whose handle was dropped during a cleanup call

vars == <<alive, pc, buffers, images, dropped_buffers, dropped_images, handles,
          devObjs, devDestroyed, devBound, heapFreed, disposed, leaked, lost,
          request, calls, result, fate, started, done, raced>>

mgrVars == <<buffers, images, dropped_buffers, dropped_images>>
devVars == <<devObjs, devDestroyed, devBound, heapFreed, disposed>>
histVars == <<fate, started, done, raced>>

\* ---------------------------------------------------------------- helpers
Max(a, b) == IF a >= b THEN a ELSE b
Min(a, b) == IF a <= b THEN a ELSE b
Raws(s) == {s[i].raw : i \in 1..Len(s)}
Call(op, raw, block, align) == [op |-> op, raw |-> raw, block |-> block, align |-> align]
Dropped(id) == fate[id] \in Threads
Gone(id) == fate[id] = "destroyed" \/ Dropped(id)

Init ==
    /\ alive = TRUE
    /\ pc = "idle"
    /\ buffers = <<>>
    /\ images = <<>>
    /\ dropped_buffers = <<>>
    /\ dropped_images = <<>>
    /\ handles = {}
    /\ devObjs = <<>>
    /\ devDestroyed = <<>>
    /\ devBound = {}
    /\ heapFreed = <<>>
    /\ disposed = {}
    /\ leaked = {}
    /\ lost = {}
    /\ request = [op |-> "new", align |-> 0]
    /\ calls = <<>>
    /\ result = "unit"
    /\ fate = <<>>
    /\ started = <<>>
    /\ done = <<>>
    /\ raced = {}

\* ---------------------------------------------------------------- creation
\* usage.flags(): the native flags a usage stands for
Flags(usage) == <<"flags", usage>>

\* Mutant: the smaller of the two alignments is handed to the allocator
MutAllocAlignMin(reqAlign, align) == Min(reqAlign, align)

\* max(reqs.alignment, align), the alignment handed to heaps.allocate
AllocAlign(reqAlign, align) == Max(reqAlign, align)

\* Mutant: align and size, both u64, change places in the Info
MutBufferInfoSwapped(align, size, usage) ==
    [align |-> size, size |-> align, usage |-> Flags(usage)]

\* buffer::Info { align, size, usage: usage.flags() }
BufferInfo(align, size, usage) ==
    [align |-> align, size |-> size, usage |-> Flags(usage)]

\* image::Info { align, kind, levels, format, tiling, view_caps, usage: usage.flags() }
ImageInfo(align, kind, levels, format, tiling, view_caps, usage) ==
    [align |-> align, kind |-> kind, levels |-> levels, format |-> format,
     tiling |-> tiling, view_caps |-> view_caps, usage |-> Flags(usage)]

\* Names of the device calls of each kind of resource
DevOp(k, what) ==
    IF k = "buffer"
    THEN CASE what = "create" -> "create_buffer"
           [] what = "reqs" -> "get_buffer_requirements"
           [] what = "bind" -> "bind_buffer_memory"
           [] what = "destroy" -> "destroy_buffer"
    ELSE CASE what = "create" -> "create_image"
           [] what = "reqs" -> "get_image_requirements"
           [] what = "bind" -> "bind_image_memory"
           [] what = "destroy" -> "destroy_image"

\* Mutant: the error of the device's create call is not returned at once
MutCreateCallsNoReturn(k, raw, blk, align, reqAlign, devOk, allocOk, bindOk) ==
    << Call(DevOp(k, "create"), 0, 0, 0),
       Call(DevOp(k, "reqs"), 0, 0, reqAlign),
       Call("allocate", 0, 0, Max(reqAlign, align)) >>

\* The device and heaps calls of one creation call, in order: every `?` returns
\* at the first failure.
CreateCalls(k, raw, blk, align, reqAlign, devOk, allocOk, bindOk) ==
    IF ~devOk
    THEN << Call(DevOp(k, "create"), 0, 0, 0) >>
    ELSE IF ~allocOk
    THEN << Call(DevOp(k, "create"), raw, 0, 0),
            Call(DevOp(k, "reqs"), raw, 0, reqAlign),
            Call("allocate", 0, 0, AllocAlign(reqAlign, align)) >>
    ELSE << Call(DevOp(k, "create"), raw, 0, 0),
            Call(DevOp(k, "reqs"), raw, 0, reqAlign),
            Call("allocate", 0, blk, AllocAlign(reqAlign, align)),
            Call(DevOp(k, "bind"), raw, blk, 0) >>

\* The value the creation call returns
CreateResult(devOk, allocOk, bindOk) ==
    IF ~devOk THEN "DeviceCreation"
    ELSE IF ~allocOk THEN "Allocation"
    ELSE IF ~bindOk THEN "Bind"
    ELSE "ok"

\* Mutant: the Inner is built without a leak guard
MutInnerNoGuard(raw, blk) == [raw |-> raw, block |-> blk, relevant |-> FALSE]

\* buffer::Inner { raw, block, relevant: relevant::Relevant }: the guard is armed
Inner(raw, blk) == [raw |-> raw, block |-> blk, relevant |-> TRUE]

\* Terminal::escape(Inner { raw, block, relevant }) wrapped with its info
Escape(k, raw, blk, info) ==
    [kind |-> k, inner |-> Inner(raw, blk), info |-> info, owner |-> Owner]

\* The body shared by create_buffer and create_image
Create(k, align, params, info, reqAlign, devOk, allocOk, bindOk) ==
    LET raw == Len(devObjs) + 1
        blk == Len(heapFreed) + 1
        ok == devOk /\ allocOk /\ bindOk
    IN  /\ alive
        /\ pc = "idle"
        /\ Len(devObjs) < MaxObj
        /\ request' = [op |-> DevOp(k, "create"), align |-> align, params |-> params]
        /\ calls' = CreateCalls(k, raw, blk, align, reqAlign, devOk, allocOk, bindOk)
        /\ result' = CreateResult(devOk, allocOk, bindOk)
        /\ devObjs' = IF devOk THEN Append(devObjs, k) ELSE devObjs
        /\ devDestroyed' = IF devOk THEN Append(devDestroyed, 0) ELSE devDestroyed
        /\ fate' = IF devOk THEN Append(fate, IF ok THEN "held" ELSE "failed") ELSE fate
        /\ started' = IF devOk THEN Append(started, 0) ELSE started
        /\ done' = IF devOk THEN Append(done, 0) ELSE done
        /\ heapFreed' = IF devOk /\ allocOk THEN Append(heapFreed, 0) ELSE heapFreed
        /\ devBound' = IF ok THEN devBound \cup {<<raw, blk>>} ELSE devBound
        /\ handles' = IF ok THEN handles \cup {Escape(k, raw, blk, info)} ELSE handles
        /\ UNCHANGED <<alive, pc, mgrVars, disposed, leaked, lost, raced>>

create_buffer(align, size, usage, reqAlign, devOk, allocOk, bindOk) ==
    Create("buffer", align, [size |-> size, usage |-> usage],
           BufferInfo(align, size, usage), reqAlign, devOk, allocOk, bindOk)

create_image(align, kind, levels, format, tiling, view_caps, usage, reqAlign, devOk, allocOk, bindOk) ==
    Create("image", align,
           [kind |-> kind, levels |-> levels, format |-> format, tiling |-> tiling,
            view_caps |-> view_caps, usage |-> usage],
           ImageInfo(align, kind, levels, format, tiling, view_caps, usage),
           reqAlign, devOk, allocOk, bindOk)

\* ---------------------------------------------------------------- handles
\* Escape::into_inner: the payload, taken without passing through the Terminal
into_inner(h) == h.inner

\* Escape::drop on any thread: the payload is sent to the Terminal of its kind,
\* or dropped in place when that Terminal is gone, its leak guard still armed.
DropHandle(h) ==
    /\ h \in handles
    /\ h.owner = Owner => pc = "idle"
    /\ handles' = handles \ {h}
    /\ IF alive
       THEN /\ buffers' = IF h.kind = "buffer" THEN Append(buffers, h.inner) ELSE buffers
            /\ images' = IF h.kind = "image" THEN Append(images, h.inner) ELSE images
            /\ UNCHANGED <<lost, leaked>>
       ELSE /\ lost' = lost \cup {h.inner.raw}
            /\ leaked' = IF h.inner.relevant THEN leaked \cup {h.inner.raw} ELSE leaked
            /\ UNCHANGED <<buffers, images>>
    /\ fate' = [fate EXCEPT ![h.inner.raw] = h.owner]
    /\ raced' = IF pc # "idle" THEN raced \cup {h.inner.raw} ELSE raced
    /\ UNCHANGED <<alive, pc, dropped_buffers, dropped_images, devVars,
                   request, calls, result, started, done>>

\* A handle is moved to another thread
MoveHandle(h, t) ==
    /\ h \in handles
    /\ t # h.owner
    /\ h.owner = Owner => pc = "idle"
    /\ handles' = (handles \ {h}) \cup {[h EXCEPT !.owner = t]}
    /\ UNCHANGED <<alive, pc, mgrVars, devVars, leaked, lost, request, calls, result, histVars>>

\* ---------------------------------------------------------------- destruction
\* Mutant: destroy_buffer lets the Escape drop instead of unwrapping it
MutDestroyBufferThroughTerminal(h) ==
    /\ alive
    /\ pc = "idle"
    /\ h \in handles
    /\ h.owner = Owner
    /\ h.kind = "buffer"
    /\ handles' = handles \ {h}
    /\ buffers' = Append(buffers, h.inner)
    /\ fate' = [fate EXCEPT ![h.inner.raw] = "destroyed"]
    /\ request' = [op |-> "destroy_buffer", align |-> 0]
    /\ calls' = <<>>
    /\ result' = "unit"
    /\ UNCHANGED <<alive, pc, images, dropped_buffers, dropped_images, devVars, leaked,
                   lost, started, done, raced>>

destroy_buffer(h) ==
    /\ alive
    /\ pc = "idle"
    /\ h \in handles
    /\ h.owner = Owner
    /\ h.kind = "buffer"
    /\ handles' = handles \ {h}
    /\ dropped_buffers' = Append(dropped_buffers, into_inner(h))
    /\ fate' = [fate EXCEPT ![h.inner.raw] = "destroyed"]
    /\ request' = [op |-> "destroy_buffer", align |-> 0]
    /\ calls' = <<>>
    /\ result' = "unit"
    /\ UNCHANGED <<alive, pc, buffers, images, dropped_images, devVars, leaked, lost,
                   started, done, raced>>

\* Mutant: destroy_image queues a copy of the Inner and leaves the handle live
MutDestroyImageKeepsHandle(h) ==
    /\ alive
    /\ pc = "idle"
    /\ h \in handles
    /\ h.owner = Owner
    /\ h.kind = "image"
    /\ h.inner.raw \notin Raws(dropped_images)
    /\ handles' = handles
    /\ dropped_images' = Append(dropped_images, h.inner)
    /\ fate' = fate
    /\ request' = [op |-> "destroy_image", align |-> 0]
    /\ calls' = <<>>
    /\ result' = "unit"
    /\ UNCHANGED <<alive, pc, buffers, images, dropped_buffers, devVars, leaked, lost,
                   started, done, raced>>

destroy_image(h) ==
    /\ alive
    /\ pc = "idle"
    /\ h \in handles
    /\ h.owner = Owner
    /\ h.kind = "image"
    /\ handles' = handles \ {h}
    /\ dropped_images' = Append(dropped_images, into_inner(h))
    /\ fate' = [fate EXCEPT ![h.inner.raw] = "destroyed"]
    /\ request' = [op |-> "destroy_image", align |-> 0]
    /\ calls' = <<>>
    /\ result' = "unit"
    /\ UNCHANGED <<alive, pc, buffers, images, dropped_buffers, devVars, leaked, lost,
                   started, done, raced>>

\* The device, the heaps and the leak guards as one value the destroy steps update
World == [destroyed |-> devDestroyed, freed |-> heapFreed, disposed |-> disposed,
          calls |-> <<>>]

\* destroy_buffer_inner / destroy_image_inner: device destroy, heaps free, dispose
DestroyInner(k, inner, w) ==
    [destroyed |-> [w.destroyed EXCEPT ![inner.raw] = @ + 1],
     freed |-> [w.freed EXCEPT ![inner.block] = @ + 1],
     disposed |-> w.disposed \cup {inner.raw},
     calls |-> w.calls \o << Call(DevOp(k, "destroy"), inner.raw, 0, 0),
                              Call("free", 0, inner.block, 0) >>]

destroy_buffer_inner(inner, w) == DestroyInner("buffer", inner, w)

\* Mutant: an image Inner is released through the device call for buffers
MutDestroyImageInnerAsBuffer(inner, w) == DestroyInner("buffer", inner, w)

destroy_image_inner(inner, w) == DestroyInner("image", inner, w)

\* Mutant: the loop over the pending buffers never runs its body
MutDestroyBuffersNone(vec, w) == w

\* for inner in vec.drain(..) { destroy_inner(inner) }
RECURSIVE DestroyBuffers(_, _)
DestroyBuffers(vec, w) ==
    IF vec = <<>> THEN w
    ELSE DestroyBuffers(Tail(vec), destroy_buffer_inner(Head(vec), w))

\* Mutant: the loop over the pending images never runs its body
MutDestroyImagesNone(vec, w) == w

RECURSIVE DestroyImages(_, _)
DestroyImages(vec, w) ==
    IF vec = <<>> THEN w
    ELSE DestroyImages(Tail(vec), destroy_image_inner(Head(vec), w))

\* Mutant: the loop iterates the Vec without draining it
MutDrainedKeeps(vec) == vec

\* What vec.drain(..) leaves in the Vec once the loop has consumed it
Drained(vec) == <<>>

\* Terminal::drain(): every payload queued, removed as one batch
drain(terminal) == [items |-> terminal, rest |-> <<>>]

\* Mutant: extend appends the drained batch twice
MutExtendTwice(vec, items) == vec \o items \o items

\* vec.extend(items)
extend(vec, items) == vec \o items

\* ---------------------------------------------------------------- cleanup
\* The cleanup calls after a drop are counted up to the second one
Bump(n) == Min(n + 1, 2)

\* Mutant: cleanup drains the Terminals first and destroys what it drained
MutCleanupDestroyEager ==
    /\ alive
    /\ pc = "idle"
    /\ LET w == DestroyImages(dropped_images \o images,
                              DestroyBuffers(dropped_buffers \o buffers, World))
       IN  /\ devDestroyed' = w.destroyed
           /\ heapFreed' = w.freed
           /\ disposed' = w.disposed
           /\ calls' = w.calls
    /\ dropped_buffers' = <<>>
    /\ dropped_images' = <<>>
    /\ buffers' = <<>>
    /\ images' = <<>>
    /\ pc' = "drain_buffers"
    /\ request' = [op |-> "cleanup", align |-> 0]
    /\ result' = "running"
    /\ started' = [i \in DOMAIN started |->
                     IF Gone(i) /\ devDestroyed[i] = 0 THEN Bump(started[i])
                     ELSE started[i]]
    /\ UNCHANGED <<alive, handles, devObjs, devBound, leaked, lost, fate, done, raced>>

\* cleanup, the two loops: destroy the pending buffers, then the pending images.
\* No other thread reads or writes what the loops touch.
CleanupDestroy ==
    /\ alive
    /\ pc = "idle"
    /\ LET w == DestroyImages(dropped_images, DestroyBuffers(dropped_buffers, World))
       IN  /\ devDestroyed' = w.destroyed
           /\ heapFreed' = w.freed
           /\ disposed' = w.disposed
           /\ calls' = w.calls
    /\ dropped_buffers' = Drained(dropped_buffers)
    /\ dropped_images' = Drained(dropped_images)
    /\ pc' = "drain_buffers"
    /\ request' = [op |-> "cleanup", align |-> 0]
    /\ result' = "running"
    /\ started' = [i \in DOMAIN started |->
                     IF Gone(i) /\ devDestroyed[i] = 0 THEN Bump(started[i])
                     ELSE started[i]]
    /\ UNCHANGED <<alive, buffers, images, handles, devObjs, devBound,
                   leaked, lost, fate, done, raced>>

\* Mutant: the drained buffer payloads are not kept
MutCleanupDrainBuffersDiscard ==
    /\ pc = "drain_buffers"
    /\ dropped_buffers' = dropped_buffers
    /\ buffers' = <<>>
    /\ pc' = "drain_images"
    /\ UNCHANGED <<alive, images, dropped_images, handles, devVars, leaked, lost,
                   request, calls, result, histVars>>

\* cleanup: self.dropped_buffers.extend(self.buffers.drain())
CleanupDrainBuffers ==
    /\ pc = "drain_buffers"
    /\ dropped_buffers' = extend(dropped_buffers, drain(buffers).items)
    /\ buffers' = drain(buffers).rest
    /\ pc' = "drain_images"
    /\ UNCHANGED <<alive, images, dropped_images, handles, devVars, leaked, lost,
                   request, calls, result, histVars>>

\* Mutant: cleanup destroys the image payloads it drains instead of keeping them
MutCleanupDrainImagesDestroy ==
    /\ pc = "drain_images"
    /\ LET w == DestroyImages(images, World)
       IN  /\ devDestroyed' = w.destroyed
           /\ heapFreed' = w.freed
           /\ disposed' = w.disposed
           /\ calls' = calls \o w.calls
    /\ dropped_images' = dropped_images
    /\ images' = <<>>
    /\ pc' = "idle"
    /\ result' = "unit"
    /\ done' = started
    /\ UNCHANGED <<alive, buffers, dropped_buffers, handles, devObjs, devBound, leaked,
                   lost, request, fate, started, raced>>

\* cleanup: self.dropped_images.extend(self.images.drain()), then return
CleanupDrainImages ==
    /\ pc = "drain_images"
    /\ dropped_images' = extend(dropped_images, drain(images).items)
    /\ images' = drain(images).rest
    /\ pc' = "idle"
    /\ result' = "unit"
    /\ done' = started
    /\ UNCHANGED <<alive, buffers, dropped_buffers, handles, devVars, leaked, lost,
                   request, calls, fate, started, raced>>

\* ---------------------------------------------------------------- manager drop
\* Mutant: the manager forgets its Inners instead of dropping them
MutDropManagerForget ==
    /\ alive
    /\ pc = "idle"
    /\ alive' = FALSE
    /\ leaked' = leaked
    /\ buffers' = <<>>
    /\ images' = <<>>
    /\ dropped_buffers' = <<>>
    /\ dropped_images' = <<>>
    /\ request' = [op |-> "drop", align |-> 0]
    /\ calls' = <<>>
    /\ result' = "unit"
    /\ UNCHANGED <<pc, handles, devVars, lost, histVars>>

\* The Resources value is dropped: its fields are dropped in place, no device or
\* heaps call is made, every Inner still inside loses its leak guard undisposed.
DropManager ==
    /\ alive
    /\ pc = "idle"
    /\ alive' = FALSE
    /\ leaked' = leaked \cup Raws(buffers) \cup Raws(images)
                        \cup Raws(dropped_buffers) \cup Raws(dropped_images)
    /\ buffers' = <<>>
    /\ images' = <<>>
    /\ dropped_buffers' = <<>>
    /\ dropped_images' = <<>>
    /\ request' = [op |-> "drop", align |-> 0]
    /\ calls' = <<>>
    /\ result' = "unit"
    /\ UNCHANGED <<pc, handles, devVars, lost, histVars>>

\* ---------------------------------------------------------------- properties
PendingOf(id) == IF devObjs[id] = "buffer" THEN dropped_buffers ELSE dropped_images
TerminalOf(id) == IF devObjs[id] = "buffer" THEN buffers ELSE images

\* Number of times the Inner of raw object id occurs in a queue or list
Occ(s, id) == Cardinality({i \in 1..Len(s) : s[i].raw = id})

\* Blocks bound to a raw object, raw objects bound to a block
BlocksOf(id) == {b \in DOMAIN heapFreed : <<id, b>> \in devBound}
RawsOf(b) == {id \in DOMAIN devObjs : <<id, b>> \in devBound}

\* C1: no raw object is destroyed through the device more than once and no block
\* is freed through the allocator more than once, whatever the sequence of
\* create, drop, destroy and cleanup calls.
AtMostOnceRelease ==
    /\ \A id \in DOMAIN devDestroyed : devDestroyed[id] <= 1
    /\ \A b \in DOMAIN heapFreed : heapFreed[b] <= 1

\* C1 witness: a resource was released and a later cleanup call, which had
\* nothing left to destroy, has returned.
ReleasedThenCleanedAgain ==
    /\ pc = "idle"
    /\ request.op = "cleanup"
    /\ calls = <<>>
    /\ \E p \in devBound : devDestroyed[p[1]] = 1 /\ heapFreed[p[2]] = 1

\* C2: after a creation call that returns the allocation error, the raw object
\* the device created in that call has been destroyed through the device.
NoLeakOnAllocationFailure ==
    result = "Allocation" => devDestroyed[Len(devObjs)] = 1

\* C3: after a creation call whose bind failed, the raw object has been destroyed
\* through the device and the block freed through the allocator.
NoLeakOnBindFailure ==
    result = "Bind" =>
        /\ devDestroyed[Len(devObjs)] = 1
        /\ heapFreed[Len(heapFreed)] = 1

\* What C4 says of a dropped resource: not released while at most one cleanup call
\* has begun since the drop, in the pending list of its kind when the first has
\* returned, released when the second has returned.
GraceWindow(id) ==
    /\ started[id] <= 1 => devDestroyed[id] = 0 /\ id \notin disposed
    /\ (alive /\ pc = "idle" /\ done[id] = 1) =>
           Occ(PendingOf(id), id) = 1 /\ Occ(TerminalOf(id), id) = 0
    /\ done[id] = 2 => devDestroyed[id] = 1

\* C4 as stated: every dropped resource is left unreleased by the first cleanup
\* call that follows the drop and released by the second.
GraceWindowForEveryDrop ==
    \A id \in DOMAIN fate : Dropped(id) => GraceWindow(id)

\* C4 as amended: a resource whose handle was dropped while no cleanup call was
\* in progress is left unreleased by the first cleanup call that follows the
\* drop, which moves it from the Terminal to the pending list, and is released
\* by the second.
DeferredDropGraceWindow ==
    \A id \in DOMAIN fate : (Dropped(id) /\ id \notin raced) => GraceWindow(id)

\* C4 witness: a resource dropped outside cleanup, released once the second
\* cleanup call returned
DroppedReleasedBySecondCleanup ==
    \E id \in DOMAIN fate :
        /\ Dropped(id) /\ id \notin raced
        /\ done[id] = 2 /\ devDestroyed[id] = 1 /\ pc = "idle"

\* C5, state part: an explicitly destroyed resource stays unreleased in the pending
\* list of its kind until cleanup is called, and is released when the first
\* cleanup call after the destroy has returned.
ExplicitDestroyInv ==
    \A id \in DOMAIN fate :
        fate[id] = "destroyed" =>
            /\ started[id] = 0 => devDestroyed[id] = 0 /\ id \notin disposed
            /\ (started[id] = 0 /\ alive) =>
                   Occ(PendingOf(id), id) = 1 /\ Occ(TerminalOf(id), id) = 0
            /\ done[id] >= 1 =>
                   devDestroyed[id] = 1 /\ \A b \in BlocksOf(id) : heapFreed[b] = 1

\* C5, step part: the destroy call itself makes no device or allocator call,
\* leaves both Terminals alone and appends the Inner to the pending list of its kind.
ExplicitDestroyStep ==
    \A h \in handles :
        (fate[h.inner.raw] = "held" /\ fate'[h.inner.raw] = "destroyed") =>
            /\ UNCHANGED <<devVars, buffers, images>>
            /\ calls' = <<>>
            /\ IF h.kind = "buffer"
               THEN /\ dropped_buffers' = Append(dropped_buffers, h.inner)
                    /\ UNCHANGED dropped_images
               ELSE /\ dropped_images' = Append(dropped_images, h.inner)
                    /\ UNCHANGED dropped_buffers

\* C5: destroy_buffer / destroy_image is pure bookkeeping and the resource is
\* released by the very first cleanup call after it.
ExplicitDestroyBookkeeping ==
    []ExplicitDestroyInv /\ [][ExplicitDestroyStep]_vars

\* C5 witness: an explicitly destroyed resource released by the first cleanup
DestroyedReleasedByFirstCleanup ==
    \E id \in DOMAIN fate :
        fate[id] = "destroyed" /\ done[id] = 1 /\ devDestroyed[id] = 1 /\ pc = "idle"

\* C6: a payload dropped on another thread is, while the manager lives, in
\* exactly one place (a Terminal queue, a pending list, or released), never lost
\* and never duplicated; once two cleanup calls begun after the drop have
\* returned it is released exactly once.
CrossThreadDelivery ==
    \A id \in DOMAIN fate :
        (Dropped(id) /\ fate[id] # Owner) =>
            /\ alive =>
                   Occ(buffers, id) + Occ(images, id) + Occ(dropped_buffers, id)
                       + Occ(dropped_images, id) + devDestroyed[id] = 1
            /\ done[id] = 2 =>
                   devDestroyed[id] = 1 /\ \A b \in BlocksOf(id) : heapFreed[b] = 1

\* C6 witness: two handles were dropped away from the owning thread and both
\* resources are released after two cleanup calls.
TwoWorkerDropsReleased ==
    \E i, j \in DOMAIN fate :
        /\ i # j
        /\ fate[i] = "worker" /\ fate[j] = "worker"
        /\ done[i] = 2 /\ done[j] = 2
        /\ devDestroyed[i] = 1 /\ devDestroyed[j] = 1

\* C7: every allocate call of a creation asks for an alignment that is one of the
\* requested and the device-reported alignments and is smaller than neither.
AlignmentFloor ==
    \A i \in DOMAIN calls :
        calls[i].op = "allocate" =>
            /\ i > 1
            /\ calls[i - 1].op \in {"get_buffer_requirements", "get_image_requirements"}
            /\ calls[i].align >= calls[i - 1].align
            /\ calls[i].align >= request.align
            /\ calls[i].align \in {calls[i - 1].align, request.align}

\* C7 witness: the device reported a larger alignment than the caller requested
\* and the allocator was asked for the device's.
DeviceAlignmentWins ==
    \E i \in DOMAIN calls :
        /\ calls[i].op = "allocate"
        /\ calls[i - 1].align > request.align
        /\ calls[i].align = calls[i - 1].align

\* C8: a creation call the device rejects makes the device's create call and no
\* other, and changes neither the Terminals, the pending lists, the handles nor
\* the device and heaps.
DeviceFailureNoSideEffect ==
    [][ (/\ result' = "DeviceCreation"
         /\ <<request, calls, result>>' # <<request, calls, result>>) =>
            /\ Len(calls') = 1
            /\ calls'[1].op = request'.op
            /\ request'.op \in {"create_buffer", "create_image"}
            /\ UNCHANGED <<alive, pc, mgrVars, handles, devVars, leaked, lost, histVars>>
      ]_vars

\* C8 witness: the device rejected a creation while an Inner was pending or queued
DeviceFailureWithPending ==
    /\ result = "DeviceCreation"
    /\ Len(calls) = 1
    /\ Len(dropped_buffers) + Len(dropped_images) + Len(buffers) + Len(images) > 0

\* C9: between manager operations every raw object not yet destroyed has exactly
\* one block bound to it, every block belongs to exactly one raw object, and a
\* raw object is destroyed exactly when its block is freed.
NeverSeparated ==
    pc = "idle" =>
        /\ \A id \in DOMAIN devObjs :
               devDestroyed[id] = 0 => Cardinality(BlocksOf(id)) = 1
        /\ \A b \in DOMAIN heapFreed : Cardinality(RawsOf(b)) = 1
        /\ \A p \in devBound : devDestroyed[p[1]] = heapFreed[p[2]]

\* C10, step part: the drop of the manager makes no device or allocator call and
\* every Inner in a pending list or a Terminal queue loses its leak guard undisposed.
ManagerDropStep ==
    (alive /\ ~alive') =>
        /\ UNCHANGED devVars
        /\ calls' = <<>>
        /\ leaked' = leaked \cup Raws(buffers) \cup Raws(images)
                            \cup Raws(dropped_buffers) \cup Raws(dropped_images)

\* C10, state part: what the drop of the manager leaked is never released
LeakedStaysUnreleased ==
    \A id \in leaked : devDestroyed[id] = 0 /\ id \notin disposed

\* C10: dropping the manager frees nothing and violates the leak guard of every
\* Inner it still holds.
ManagerDropFreesNothing ==
    []LeakedStaysUnreleased /\ [][ManagerDropStep]_vars

\* C10 witness: the manager was dropped with an Inner pending and one queued
ManagerDroppedWithInners ==
    /\ ~alive
    /\ Cardinality(leaked \ lost) = 2

\* Places the Inner of raw object id can be delivered to
Delivered(id) ==
    Occ(buffers, id) + Occ(images, id) + Occ(dropped_buffers, id) + Occ(dropped_images, id)

LostPayloadInv ==
    \A id \in lost :
        /\ Delivered(id) = 0
        /\ devDestroyed[id] = 0
        /\ id \notin disposed
        /\ id \in leaked

\* C11, step part: the drop itself delivers nothing, calls neither the device nor
\* the heaps and returns no error.
LostPayloadStep ==
    lost' # lost =>
        /\ ~alive
        /\ UNCHANGED <<mgrVars, devVars, request, calls, result>>
        /\ Cardinality(handles') = Cardinality(handles) - 1

Returned == {h \in handles : h.inner.raw = Len(devObjs)}

\* C12, state part: the info of the handle a creation call returns holds the
\* arguments of that call, field by field, whatever the device reported.
InfoEqualsArguments ==
    (result = "ok" /\ pc = "idle") =>
        \A h \in Returned :
            /\ h.info.align = request.align
            /\ h.info.usage = Flags(request.params.usage)
            /\ h.kind = "buffer" =>
                   /\ request.op = "create_buffer"
                   /\ DOMAIN h.info = {"align", "size", "usage"}
                   /\ h.info.size = request.params.size
            /\ h.kind = "image" =>
                   /\ request.op = "create_image"
                   /\ DOMAIN h.info =
                          {"align", "kind", "levels", "format", "tiling", "view_caps", "usage"}
                   /\ h.info.kind = request.params.kind
                   /\ h.info.levels = request.params.levels
                   /\ h.info.format = request.params.format
                   /\ h.info.tiling = request.params.tiling
                   /\ h.info.view_caps = request.params.view_caps

\* C12, step part: the info of a handle never changes while the handle lives
InfoNeverChanges ==
    \A h \in handles : \A g \in handles' :
        g.inner.raw = h.inner.raw => g.info = h.info /\ g.inner = h.inner

\* C12: the info of every created resource equals the creation arguments and
\* never changes afterwards.
RoundTripInfoIntegrity ==
    []InfoEqualsArguments /\ [][InfoNeverChanges]_vars

\* C12 witness: a buffer was created with a requested alignment smaller than the
\* one the device reported, and its info holds the requested one.
InfoKeepsRequestedAlign ==
    /\ result = "ok"
    /\ request.op = "create_buffer"
    /\ \E h \in Returned : h.info.align = request.align /\ h.info.size = 8
    /\ calls[2].align > request.align

\* The destroy and free calls cleanup makes for the i-th Inner of a pending list
ReleaseCalls(cs, at, k, vec) ==
    \A i \in 1..Len(vec) :
        /\ cs[at + 2 * i - 1] = Call(DevOp(k, "destroy"), vec[i].raw, 0, 0)
        /\ cs[at + 2 * i] = Call("free", 0, vec[i].block, 0)

\* C13, first step of cleanup: every Inner pending when the call begins is
\* released once, the buffers first and then the images, nothing else is
\* released, and both pending lists are left empty.
CleanupReleasesPending ==
    (pc = "idle" /\ pc' = "drain_buffers") =>
        /\ \A id \in DOMAIN devDestroyed :
               devDestroyed'[id] = devDestroyed[id]
                   + Occ(dropped_buffers, id) + Occ(dropped_images, id)
        /\ \A i \in 1..Len(dropped_buffers) :
               heapFreed'[dropped_buffers[i].block] = heapFreed[dropped_buffers[i].block] + 1
        /\ \A i \in 1..Len(dropped_images) :
               heapFreed'[dropped_images[i].block] = heapFreed[dropped_images[i].block] + 1
        /\ disposed' = disposed \cup Raws(dropped_buffers) \cup Raws(dropped_images)
        /\ Len(calls') = 2 * (Len(dropped_buffers) + Len(dropped_images))
        /\ ReleaseCalls(calls', 0, "buffer", dropped_buffers)
        /\ ReleaseCalls(calls', 2 * Len(dropped_buffers), "image", dropped_images)
        /\ dropped_buffers' = <<>>
        /\ dropped_images' = <<>>
        /\ UNCHANGED <<buffers, images>>

\* C13, last steps of cleanup: each pending list receives exactly what is drained
\* from the Terminal of its kind, and nothing is released.
CleanupKeepsDrained ==
    /\ (pc = "drain_buffers" /\ pc' = "drain_images") =>
           /\ dropped_buffers' = buffers
           /\ buffers' = <<>>
           /\ UNCHANGED <<images, dropped_images, devVars, calls>>
    /\ (pc = "drain_images" /\ pc' = "idle") =>
           /\ dropped_images' = images
           /\ images' = <<>>
           /\ UNCHANGED <<buffers, dropped_buffers, devVars, calls>>

\* C13, state part: while cleanup drains, the lists it has not filled yet are
\* empty; when it has returned, nothing in a pending list has been released.
CleanupPostState ==
    /\ pc = "drain_buffers" => dropped_buffers = <<>> /\ dropped_images = <<>>
    /\ pc = "drain_images" => dropped_images = <<>>
    /\ (pc = "idle" /\ request.op = "cleanup") =>
           \A id \in Raws(dropped_buffers) \cup Raws(dropped_images) :
               devDestroyed[id] = 0 /\ id \notin disposed

\* C13: when cleanup returns, what was pending when it began is released, buffers
\* first, and each pending list holds exactly what this call drained, unreleased.
CleanupPostcondition ==
    []CleanupPostState /\ [][CleanupReleasesPending /\ CleanupKeepsDrained]_vars

\* C13 witness: a cleanup call has returned that released one pending Inner and
\* drained another from a Terminal into a pending list.
CleanupReleasedAndDrained ==
    /\ pc = "idle"
    /\ request.op = "cleanup"
    /\ Len(calls) = 2
    /\ Len(dropped_buffers) + Len(dropped_images) = 1

\* The state of the manager and of the device and heaps behind it, as one value
Manager ==
    [buffers |-> buffers, images |-> images, dropped_buffers |-> dropped_buffers,
     dropped_images |-> dropped_images, world |-> World]

\* Mutant: destroy_buffer / destroy_image forget the handle without queueing it
MutAfterDestroyForget(h, m) == m

\* destroy_buffer / destroy_image as a function of the manager state
AfterDestroy(h, m) ==
    IF h.kind = "buffer"
    THEN [m EXCEPT !.dropped_buffers = Append(@, into_inner(h))]
    ELSE [m EXCEPT !.dropped_images = Append(@, into_inner(h))]

\* Dropping the handle as a function of the manager state
AfterDrop(h, m) ==
    IF h.kind = "buffer"
    THEN [m EXCEPT !.buffers = Append(@, h.inner)]
    ELSE [m EXCEPT !.images = Append(@, h.inner)]

\* One whole cleanup call, nothing else running, as a function of the manager state
AfterCleanup(m) ==
    [buffers |-> drain(m.buffers).rest,
     images |-> drain(m.images).rest,
     dropped_buffers |-> extend(Drained(m.dropped_buffers), drain(m.buffers).items),
     dropped_images |-> extend(Drained(m.dropped_images), drain(m.images).items),
     world |-> DestroyImages(m.dropped_images, DestroyBuffers(m.dropped_buffers, m.world))]

\* What the two runs of C14 are compared on: the released set and the four queues
Outcome(m) ==
    <<m.world.destroyed, m.world.freed, m.world.disposed,
      m.buffers, m.images, m.dropped_buffers, m.dropped_images>>

\* C14, the two runs side by side: from any state in which the client holds a
\* handle, destroying it and dropping it reach the same outcome after the two
\* cleanup calls that follow, with the resource released once and nothing queued.
SameOutcomeAfterTwoCleanups ==
    (alive /\ pc = "idle") =>
        \A h \in handles :
            LET explicit == AfterCleanup(AfterCleanup(AfterDestroy(h, Manager)))
                implicit == AfterCleanup(AfterCleanup(AfterDrop(h, Manager)))
            IN  /\ Outcome(explicit) = Outcome(implicit)
                /\ explicit.world.destroyed[h.inner.raw] = 1
                /\ explicit.world.freed[h.inner.block] = 1
                /\ h.inner.raw \in explicit.world.disposed
                /\ explicit.buffers = <<>> /\ explicit.images = <<>>
                /\ explicit.dropped_buffers = <<>> /\ explicit.dropped_images = <<>>

\* C14, in the behaviours themselves: however the handle left, once two cleanup
\* calls have followed the resource is released once and queued nowhere.
ReleasedOnceEitherWay ==
    \A id \in DOMAIN fate :
        (Gone(id) /\ done[id] = 2) =>
            /\ devDestroyed[id] = 1
            /\ \A b \in BlocksOf(id) : heapFreed[b] = 1
            /\ id \in disposed
            /\ Delivered(id) = 0

\* C14, the functions above are the steps of the model: a destroy step and a drop
\* step change the four queues as AfterDestroy and AfterDrop say, and the loops
\* of cleanup release what AfterCleanup releases.
RunsFollowTheSteps ==
    /\ \A h \in handles \ handles' :
           /\ fate'[h.inner.raw] = "destroyed" =>
                  Outcome(AfterDestroy(h, Manager)) = Outcome(Manager)'
           /\ (fate'[h.inner.raw] \in Threads /\ alive) =>
                  Outcome(AfterDrop(h, Manager)) = Outcome(Manager)'
    /\ (pc = "idle" /\ pc' = "drain_buffers") =>
           /\ AfterCleanup(Manager).world.destroyed = devDestroyed'
           /\ AfterCleanup(Manager).world.freed = heapFreed'
           /\ AfterCleanup(Manager).world.disposed = disposed'
           /\ AfterCleanup(Manager).world.calls = calls'

\* C14: destroying a handle explicitly and dropping it are the same in outcome
\* after the following two cleanup calls: released exactly once, the same released
\* set, empty pending lists and Terminal queues.
ExplicitDestroyEquivalentToDrop ==
    [](SameOutcomeAfterTwoCleanups /\ ReleasedOnceEitherWay) /\ [][RunsFollowTheSteps]_vars

\* C14 witness: one resource left by destroy and one by drop; both are released
\* once, nothing is queued, and the manager is still there.
DestroyedAndDroppedBothReleased ==
    /\ alive
    /\ pc = "idle"
    /\ \E i, j \in DOMAIN fate :
           /\ fate[i] = "destroyed" /\ fate[j] = Owner
           /\ devDestroyed[i] = 1 /\ devDestroyed[j] = 1
    /\ Delivered(1) + Delivered(2) = 0

\* C15, state part: a resource whose handle the client holds is not released and
\* its Inner is in no Terminal and no pending list.
LiveHandleUntouched ==
    \A h \in handles :
        /\ devDestroyed[h.inner.raw] = 0
        /\ heapFreed[h.inner.block] = 0
        /\ h.inner.raw \notin disposed
        /\ Delivered(h.inner.raw) = 0

\* C15, step part: a resource is released only by cleanup, and only when its Inner
\* is in the pending list of its kind and no handle to it is left.
ReleasedOnlyFromPending ==
    \A id \in DOMAIN devDestroyed :
        (devDestroyed'[id] # devDestroyed[id] \/ (id \in disposed' /\ id \notin disposed)) =>
            /\ pc = "idle" /\ pc' = "drain_buffers"
            /\ Occ(PendingOf(id), id) = 1
            /\ \A h \in handles : h.inner.raw # id

\* C15: no cleanup releases a resource whose handle is still held; a resource is
\* released only after its Inner entered a pending list.
LiveHandleNeverReclaimed ==
    []LiveHandleUntouched /\ [][ReleasedOnlyFromPending]_vars

\* C15 witness: a cleanup call has just released one resource while the client
\* holds the handle of another.
CleanupPassedOverLiveHandle ==
    /\ request.op = "cleanup"
    /\ Len(calls) = 2
    /\ \E h \in handles : devDestroyed[h.inner.raw] = 0

\* Resources whose creation call returned a handle
Created == {id \in DOMAIN fate : fate[id] # "failed"}

\* The four places a created resource can be in
HeldCount(id) == Cardinality({h \in handles : h.inner.raw = id})
QueuedCount(id) == Occ(TerminalOf(id), id)
PendingCount(id) == Occ(PendingOf(id), id)
ReleasedCount(id) == devDestroyed[id]

RECURSIVE Sum(_, _)
Sum(f, ids) ==
    IF ids = {} THEN 0
    ELSE LET id == CHOOSE x \in ids : TRUE IN f[id] + Sum(f, ids \ {id})

\* C16: while the manager is alive every successfully created resource is in
\* exactly one of four places: held through a live handle, queued in the Terminal
\* of its kind, in the pending list of its kind, or released; the number of
\* successful creations is the sum of the four counts.
Conservation ==
    alive =>
        /\ \A id \in Created :
               /\ HeldCount(id) + QueuedCount(id) + PendingCount(id) + ReleasedCount(id) = 1
               /\ Delivered(id) = QueuedCount(id) + PendingCount(id)
        /\ Cardinality(Created) =
               Sum([id \in Created |-> HeldCount(id)], Created)
               + Sum([id \in Created |-> QueuedCount(id)], Created)
               + Sum([id \in Created |-> PendingCount(id)], Created)
               + Sum([id \in Created |-> ReleasedCount(id)], Created)

\* C16 witness: with the manager alive, one resource has been released and
\* another waits in a pending list after passing through a Terminal.
ReleasedAndPendingTogether ==
    /\ alive
    /\ \E i, j \in Created :
           /\ ReleasedCount(i) = 1
           /\ PendingCount(j) = 1 /\ Dropped(j)

\* C17: a resource whose handle is dropped while a cleanup call is in progress is
\* not released by that call: until a later cleanup call begins it is unreleased
\* and, while the manager lives, either in the Terminal of its kind or drained
\* into the pending list of its kind; it is released once the second cleanup call
\* begun after the drop has returned.
RacingDropSurvivesCleanup ==
    \A id \in raced :
        /\ started[id] = 0 =>
               /\ devDestroyed[id] = 0
               /\ id \notin disposed
               /\ \A b \in BlocksOf(id) : heapFreed[b] = 0
               /\ alive => QueuedCount(id) + PendingCount(id) = 1
        /\ done[id] = 2 => devDestroyed[id] = 1

\* C17 witness: a handle dropped during a cleanup call and left in the Terminal
\* by it; the resource is released by the second cleanup call after the drop.
RacingDropReleasedBySecondCleanup ==
    \E id \in raced : done[id] = 2 /\ devDestroyed[id] = 1 /\ pc = "idle"

\* All four queues of a manager state are empty
Empty(m) ==
    /\ m.buffers = <<>> /\ m.images = <<>>
    /\ m.dropped_buffers = <<>> /\ m.dropped_images = <<>>

\* C18, from any state between two manager calls: with no creation, drop or
\* destroy in between, two cleanup calls release every resource whose handle was
\* dropped or destroyed and empty the four queues, and a third makes no device or
\* heaps call and changes nothing.
TwoCleanupsReachQuiescence ==
    (alive /\ pc = "idle") =>
        LET second == AfterCleanup(AfterCleanup(Manager))
            third == AfterCleanup(second)
        IN  /\ \A id \in Created :
                   Gone(id) =>
                       /\ second.world.destroyed[id] = 1
                       /\ \A b \in BlocksOf(id) : second.world.freed[b] = 1
                       /\ id \in second.world.disposed
            /\ Empty(second)
            /\ third = second

\* C18, in the behaviours themselves: a cleanup call that finds the four queues
\* empty makes no device or heaps call, and a drain step that finds its Terminal
\* empty changes nothing the manager, the device or the heaps hold.
IdleCleanupChangesNothing ==
    /\ (pc = "idle" /\ pc' = "drain_buffers" /\ Empty(Manager)) =>
           calls' = <<>> /\ UNCHANGED <<mgrVars, devVars, handles>>
    /\ (pc = "drain_buffers" /\ pc' = "drain_images" /\ buffers = <<>>) =>
           UNCHANGED <<mgrVars, devVars, handles, calls>>
    /\ (pc = "drain_images" /\ pc' = "idle" /\ images = <<>>) =>
           UNCHANGED <<mgrVars, devVars, handles, calls>>

\* C18: once nothing more is created, dropped or destroyed, two consecutive
\* cleanup calls release everything dropped or destroyed and leave the pending
\* lists and Terminals empty; any further cleanup call does nothing.
Quiescence ==
    []TwoCleanupsReachQuiescence /\ [][IdleCleanupChangesNothing]_vars

\* C18 witness: a dropped resource was released by the second cleanup call after
\* its drop, and a further cleanup call has returned having made no call, with
\* every queue empty.
FurtherCleanupDidNothing ==
    /\ alive
    /\ pc = "idle"
    /\ request.op = "cleanup"
    /\ calls = <<>>
    /\ Empty(Manager)
    /\ \E id \in Created : Dropped(id) /\ done[id] = 2 /\ devDestroyed[id] = 1

\* The kind other than k
OtherKind(k) == IF k = "buffer" THEN "image" ELSE "buffer"

\* The Terminal and the pending list of kind k are left as they were
KindUntouched(k) ==
    IF k = "buffer" THEN UNCHANGED <<buffers, dropped_buffers>>
    ELSE UNCHANGED <<images, dropped_images>>

\* C19, state part: the buffer Terminal and pending list hold buffer Inners only,
\* the image ones image Inners only, and every device destroy call cleanup made
\* is the one of the kind of the object it was made on.
KindsSeparate ==
    /\ \A id \in Raws(buffers) \cup Raws(dropped_buffers) : devObjs[id] = "buffer"
    /\ \A id \in Raws(images) \cup Raws(dropped_images) : devObjs[id] = "image"
    /\ request.op = "cleanup" =>
           \A i \in 1..Len(calls) :
               calls[i].op \in {"destroy_buffer", "destroy_image"} =>
                   calls[i].op = DevOp(devObjs[calls[i].raw], "destroy")

\* C19, step part: a step that creates an object of one kind, or in which a handle
\* of one kind is dropped or destroyed, leaves the Terminal and the pending list
\* of the other kind as they were; a release goes through the destroy call of the
\* kind of the object released.
KindsStep ==
    /\ Len(devObjs') > Len(devObjs) => KindUntouched(OtherKind(devObjs'[Len(devObjs')]))
    /\ \A h \in handles \ handles' : KindUntouched(OtherKind(h.kind))
    /\ \A id \in DOMAIN devDestroyed :
           devDestroyed'[id] # devDestroyed[id] =>
               \E i \in 1..Len(calls') :
                   calls'[i] = Call(DevOp(devObjs[id], "destroy"), id, 0, 0)

\* C19: buffers and images never mix: creating, dropping or destroying one kind
\* leaves the other kind's Terminal and pending list unchanged, and cleanup
\* releases buffer Inners through destroy_buffer and image Inners through
\* destroy_image, never the other way round.
KindsNeverMix ==
    []KindsSeparate /\ [][KindsStep]_vars

\* C19 witness: one cleanup call released a buffer and an image, each through the
\* destroy call of its kind.
CleanupReleasedBothKinds ==
    /\ request.op = "cleanup"
    /\ Len(calls) = 4
    /\ calls[1].op = "destroy_buffer"
    /\ calls[3].op = "destroy_image"

\* ---------------------------------------------------------------- specification
\* What the device and the heaps answer in one creation call: a call that is not
\* reached answers nothing, and the requirements are reported only when queried.
Answers(reqAlign, devOk, allocOk, bindOk) ==
    /\ ~devOk => (~allocOk /\ reqAlign = 1)
    /\ ~allocOk => ~bindOk

Next ==
    \/ \E a \in Aligns, s \in Sizes, u \in BufferUsages, r \in Aligns,
          d \in BOOLEAN, m \in BOOLEAN, b \in BOOLEAN :
            Answers(r, d, m, b) /\ create_buffer(a, s, u, r, d, m, b)
    \/ \E a \in Aligns, kind \in ImageKinds, levels \in Levels, format \in Formats,
          tiling \in Tilings, view_caps \in ViewCaps, u \in ImageUsages, r \in Aligns,
          d \in BOOLEAN, m \in BOOLEAN, b \in BOOLEAN :
            Answers(r, d, m, b)
            /\ create_image(a, kind, levels, format, tiling, view_caps, u, r, d, m, b)
    \/ \E h \in handles : DropHandle(h)
    \/ \E h \in handles, t \in Threads : MoveHandle(h, t)
    \/ \E h \in handles : destroy_buffer(h)
    \/ \E h \in handles : destroy_image(h)
    \/ CleanupDestroy
    \/ CleanupDrainBuffers
    \/ CleanupDrainImages
    \/ DropManager

Spec == Init /\ [][Next]_vars

====
